---- MODULE Spec2Model ----
(***************************************************************************)
(* A model of src/main.rs: the vector kernel, plane derivation and point   *)
(* and polygon classification, polygon splitting, the recursive BSP tree   *)
(* builder and the viewer dependent traversal.                             *)
(*                                                                         *)
(* Numbers.  The source computes in f64.  The model computes on the        *)
(* integer grid: every input coordinate is an integer and every polygon's  *)
(* first three vertices span an axis aligned plane (or are collinear), so  *)
(* that normalized() yields an exact unit vector and every dot product of  *)
(* the source is an exact small integer in f64 as well.  The one quantity  *)
(* with no integer value, lerp()'s result, is rounded to the grid.  NaN,   *)
(* which the source produces for a polygon with collinear first vertices   *)
(* (normalized() of the zero vector), is carried as the flag `nan` of a    *)
(* plane: every ordered comparison with NaN is false.                      *)
(***************************************************************************)
EXTENDS Integers, Sequences, FiniteSets, TLC

\* ------------------------------------------------------------------ bounds
\* Longest polygon collection drawn as input (besides the box of main()).
MaxPolys == 3
\* Call frames the stack holds before the process dies of stack exhaustion.
StackLimit == 8

\* ------------------------------------------------------- program constants
\* const PLANE_THICKNESS_EPS: half the thickness of the slab around a plane.
\* The source's 1e-6 lies below the grid's spacing, where it acts as 0; the
\* model widens it to one grid step so that points inside the slab and off
\* the plane exist.
PLANE_THICKNESS_EPS == 1
\* main(): half extent of the box, Vec3{x: 5., y: 5., z: 5.}.
CubeRadius == 5
\* main(): the viewer's x and y, Vec3{x: 10., y: 10., z: 0.}.
ViewerXY == 10

\* ------------------------------------------------------------ vector kernel
\* f64::sqrt on the perfect squares the model meets (0 for 0).
Sqrt(s) == CHOOSE r \in 0..s : r * r <= s /\ (r + 1) * (r + 1) > s

\* p / q rounded to the nearest integer, q > 0.
Round(p, q) == (2 * p + q) \div (2 * q)

sub(self, other) ==
    << self[1] - other[1], self[2] - other[2], self[3] - other[3] >>

cross(self, other) ==
    << self[2] * other[3] - self[3] * other[2],
       self[3] * other[1] - self[1] * other[3],
       self[1] * other[2] - self[2] * other[1] >>

dot(self, other) ==
    self[1] * other[1] + self[2] * other[2] + self[3] * other[3]

\* t is the fraction t.num / t.den with t.den > 0:
\* (1 - t) * self + t * other, each coordinate rounded to the grid.
lerp(self, other, t) ==
    << Round((t.den - t.num) * self[1] + t.num * other[1], t.den),
       Round((t.den - t.num) * self[2] + t.num * other[2], t.den),
       Round((t.den - t.num) * self[3] + t.num * other[3], t.den) >>

len(self) == Sqrt(dot(self, self))

\* self.scale(1. / len): only called with len > 0 in the model; the zero
\* vector (1/0 = inf, 0 * inf = NaN) is handled by the caller as NaN.
normalized(self) ==
    << self[1] \div len(self), self[2] \div len(self), self[3] \div len(self) >>

\* --------------------------------------------------------- planes, polygons
\* BSPPlane { n: NaN, d: NaN }
NaNPlane == [n |-> <<0, 0, 0>>, d |-> 0, nan |-> TRUE]

bsp_plane_by_three_points(a, b, c) ==
    LET d0 == sub(b, a)
        d1 == sub(c, a)
        x  == cross(d1, d0)
    IN  IF len(x) = 0
        THEN NaNPlane
        ELSE [n |-> normalized(x), d |-> dot(a, normalized(x)), nan |-> FALSE]

bsp_polygon_by_vertices(vertices) ==
    [plane    |-> bsp_plane_by_three_points(vertices[1], vertices[2], vertices[3]),
     vertices |-> vertices]

classify_point_to_plane(plane, p) ==
    LET dist == dot(plane.n, p) - plane.d
    IN  IF plane.nan THEN "COPLANAR"
        ELSE IF dist > PLANE_THICKNESS_EPS THEN "FRONT"
        ELSE IF dist < -PLANE_THICKNESS_EPS THEN "BACK"
        ELSE "COPLANAR"

\* One iteration of the loop of classify_polygon_by_plane on a vertex of
\* class `side`; the counts are frozen once both are nonzero (the early
\* return of SPANNING).
count_vertex(prev, side) ==
    IF prev.front_count # 0 /\ prev.back_count # 0 THEN prev
    ELSE IF side = "FRONT" THEN [prev EXCEPT !.front_count = @ + 1]
    ELSE IF side = "BACK" THEN [prev EXCEPT !.back_count = @ + 1]
    ELSE prev

\* The class the counts stand for: lines 114-116 and 119-127.
side_of_counts(c) ==
    IF c.front_count # 0 /\ c.back_count # 0 THEN "SPANNING"
    ELSE IF c.front_count # 0 THEN "FRONT"
    ELSE IF c.back_count # 0 THEN "BACK"
    ELSE "COPLANAR"

\* c[i] is the state of the loop after i vertices.
classify_polygon_by_plane(plane, polygon) ==
    LET c[i \in 0..Len(polygon.vertices)] ==
            IF i = 0 THEN [front_count |-> 0, back_count |-> 0]
            ELSE count_vertex(c[i - 1],
                     classify_point_to_plane(plane, polygon.vertices[i]))
    IN  side_of_counts(c[Len(polygon.vertices)])

\* Option<Vec3>
None == [some |-> FALSE, v |-> <<0, 0, 0>>]
Some(v) == [some |-> TRUE, v |-> v]

\* t = (plane.d - n.a) / n.ab; a zero denominator makes t infinite or NaN,
\* and then neither comparison of `t >= 0.0 && t <= 1.0` holds.
intersect_segment_plane(a, b, plane) ==
    LET ab  == sub(b, a)
        num == plane.d - dot(plane.n, a)
        den == dot(plane.n, ab)
    IN  IF plane.nan \/ den = 0 THEN None
        ELSE IF den > 0 /\ 0 <= num /\ num <= den
             THEN Some(lerp(a, b, [num |-> num, den |-> den]))
        ELSE IF den < 0 /\ den <= num /\ num <= 0
             THEN Some(lerp(a, b, [num |-> -num, den |-> -den]))
        ELSE None

\* ------------------------------------------------------- PointPlaneSide ==
\* What a call returns: `returns` is FALSE when control never comes back to
\* the caller (the process dies of stack exhaustion, or spins), and then
\* `value` means nothing.
NoReturn == [returns |-> FALSE, value |-> FALSE]

\* The body of PartialEq::eq is `self == other` with self, other: &Self.
\* `==` on two references is PartialEq::eq on what they refer to: the same
\* function with the same arguments, one call frame deeper, and no branch
\* that ends the descent.  `frames` counts the frames of eq on the stack.
RECURSIVE eq_frame(_, _, _)
eq_frame(self, other, frames) ==
    IF frames > StackLimit THEN NoReturn
    ELSE eq_frame(self, other, frames + 1)

PointPlaneSide_eq(self, other) == eq_frame(self, other, 1)

\* -------------------------------------------------------- split_bsp_polygon
\* One iteration of `for br in points.iter()`: s is the loop's state before
\* it, b the vertex.  An iteration whose comparison does not return leaves
\* the loop stuck there.
split_iteration(plane, s, b) ==
    LET b_side == classify_point_to_plane(plane, b)
        stuck  == [s EXCEPT !.returns = FALSE]
        next(f, k)   == [a |-> b, a_side |-> b_side,
                         front_verts |-> f, back_verts |-> k,
                         returns |-> TRUE, iterations |-> s.iterations + 1]
        fv == s.front_verts
        bv == s.back_verts
        b_front == PointPlaneSide_eq(b_side, "FRONT")
        b_back  == PointPlaneSide_eq(b_side, "BACK")
        a_back  == PointPlaneSide_eq(s.a_side, "BACK")
        a_front == PointPlaneSide_eq(s.a_side, "FRONT")
        a_copl  == PointPlaneSide_eq(s.a_side, "COPLANAR")
    IN  IF ~s.returns THEN s
        ELSE IF ~b_front.returns THEN stuck                      \* line 198
        ELSE IF b_front.value THEN
            IF ~a_back.returns THEN stuck                        \* line 199
            ELSE IF a_back.value THEN
                LET int == intersect_segment_plane(b, s.a, plane)
                IN  IF int.some
                    THEN next(fv \o <<int.v, b>>, bv \o <<int.v>>)
                    ELSE next(fv \o <<b>>, bv)
            ELSE next(fv \o <<b>>, bv)
        ELSE IF ~b_back.returns THEN stuck                       \* line 209
        ELSE IF b_back.value THEN
            IF ~a_front.returns THEN stuck                       \* line 210
            ELSE IF a_front.value THEN
                LET int == intersect_segment_plane(s.a, b, plane)
                IN  IF int.some
                    THEN next(fv \o <<int.v>>, bv \o <<int.v, b>>)
                    ELSE next(fv, bv \o <<b>>)
            ELSE IF ~a_copl.returns THEN stuck                   \* line 217
            ELSE IF a_copl.value THEN next(fv, bv \o <<s.a, b>>)
            ELSE next(fv, bv \o <<b>>)
        ELSE
            IF ~a_back.returns THEN stuck                        \* line 225
            ELSE IF a_back.value THEN next(fv \o <<b>>, bv \o <<b>>)
            ELSE next(fv \o <<b>>, bv)

\* The state of the loop before its first iteration: lines 188-192.
split_start(plane, a) ==
    [a |-> a, a_side |-> classify_point_to_plane(plane, a),
     front_verts |-> <<>>, back_verts |-> <<>>,
     returns |-> TRUE, iterations |-> 0]

\* What the call hands back from the loop's last state: lines 234-240.
\* `iterations` is the number of loop iterations that ran to their end.
split_return(polygon, end) ==
    [returns    |-> end.returns,
     iterations |-> end.iterations,
     front |-> [plane |-> polygon.plane, vertices |-> end.front_verts],
     back  |-> [plane |-> polygon.plane, vertices |-> end.back_verts]]

\* A call that does not come back to its caller.
split_no_return(polygon) ==
    [returns |-> FALSE, iterations |-> 0,
     front |-> [plane |-> polygon.plane, vertices |-> <<>>],
     back  |-> [plane |-> polygon.plane, vertices |-> <<>>]]

\* A faulty split: the fragments are handed back as they are before the
\* loop, without the walk over the ring.
split_unwalked(splitting_plane, polygon) ==
    [returns |-> TRUE, iterations |-> 0,
     front |-> [plane |-> polygon.plane, vertices |-> <<>>],
     back  |-> [plane |-> polygon.plane, vertices |-> <<>>]]

\* The whole function: s[i] is the loop's state after i iterations.
\* points[points.len() - 1] of an empty ring panics.
split_bsp_polygon(splitting_plane, polygon) ==
    LET s[i \in 0..Len(polygon.vertices)] ==
            IF i = 0
            THEN split_start(splitting_plane,
                             polygon.vertices[Len(polygon.vertices)])
            ELSE split_iteration(splitting_plane, s[i - 1], polygon.vertices[i])
    IN  IF Len(polygon.vertices) = 0
        THEN split_no_return(polygon)
        ELSE split_return(polygon, s[Len(polygon.vertices)])

\* ----------------------------------------------------------- build_bsp_node
\* The SPANNING arm of the match, lines 261-265, r being what
\* split_bsp_polygon returned.
push_fragments(acc, r) ==
    IF ~r.returns THEN [acc EXCEPT !.returns = FALSE]
    ELSE [acc EXCEPT !.back = Append(@, r.back),
                     !.front = Append(@, r.front),
                     !.splits = @ + 1]

\* A faulty match: the BACK and the FRONT arm push to each other's list.
push_by_class_swapped(split_plane, acc, polygon, class) ==
    IF class = "BACK" THEN [acc EXCEPT !.front = Append(@, polygon)]
    ELSE IF class = "FRONT" THEN [acc EXCEPT !.back = Append(@, polygon)]
    ELSE IF class = "COPLANAR" THEN [acc EXCEPT !.coplanar = Append(@, polygon)]
    ELSE push_fragments(acc, split_bsp_polygon(split_plane, polygon))

\* The match of lines 257-266 on a polygon of class `class`.
push_by_class(split_plane, acc, polygon, class) ==
    IF class = "BACK" THEN [acc EXCEPT !.back = Append(@, polygon)]
    ELSE IF class = "FRONT" THEN [acc EXCEPT !.front = Append(@, polygon)]
    ELSE IF class = "COPLANAR" THEN [acc EXCEPT !.coplanar = Append(@, polygon)]
    ELSE push_fragments(acc, split_bsp_polygon(split_plane, polygon))

\* One iteration of `for polygon in polygons.iter()`.  acc holds the three
\* lists; once a split has not returned, nothing more happens in this call.
build_place(split_plane, acc, polygon) ==
    IF ~acc.returns THEN acc
    ELSE push_by_class(split_plane, acc, polygon,
                       classify_polygon_by_plane(split_plane, polygon))

\* Lines 248-267 of build_bsp_node for a non-empty collection: the three
\* lists after the loop, acc[i] after i polygons.
build_lists(polygons) ==
    LET split_plane == polygons[1].plane
        acc[i \in 0..Len(polygons)] ==
            IF i = 0
            THEN [front |-> <<>>, back |-> <<>>, coplanar |-> <<>>,
                  returns |-> TRUE, splits |-> 0]
            ELSE build_place(split_plane, acc[i - 1], polygons[i])
    IN  acc[Len(polygons)]

\* ----------------------------------------------------------- bsp_cube_faces
\* `i & m != 0` for m a power of two.
Bit(i, m) == IF (i \div m) % 2 = 1 THEN 1 ELSE 0

CubeVertex(center, radius, i) ==
    << center[1] + radius[1] * (2 * Bit(i, 1) - 1),
       center[2] + radius[2] * (2 * Bit(i, 2) - 1),
       center[3] + radius[3] * (2 * Bit(i, 4) - 1) >>

bsp_cube_faces(center, radius) ==
    LET verts == << <<0, 4, 6, 2>>, <<1, 3, 7, 5>>, <<0, 1, 5, 4>>,
                    <<2, 6, 7, 3>>, <<0, 2, 3, 1>>, <<4, 5, 7, 6>> >>
    IN  [f \in 1..6 |->
            bsp_polygon_by_vertices(
                [k \in 1..4 |-> CubeVertex(center, radius, verts[f][k])])]

\* ---------------------------------------------------------------- render_bsp
\* A faulty test: the viewer's side taken with the tolerance of
\* classify_point_to_plane.
viewer_in_front_of_slab(plane, viewer) ==
    classify_point_to_plane(plane, viewer) = "FRONT"

\* The test of line 303, `node.plane.n.dot(viewer) > node.plane.d`: no
\* tolerance, and false for a NaN plane.
viewer_in_front(plane, viewer) ==
    ~plane.nan /\ dot(plane.n, viewer) > plane.d

\* The order in which render_bsp descends into a Node's two children.
render_order(node, viewer) ==
    IF viewer_in_front(node.plane, viewer) THEN <<"front", "back">>
    ELSE <<"back", "front">>

\* A faulty Leaf arm: nothing is printed for a Leaf.
render_print_silent_leaf(node) ==
    IF node.kind = "Node" THEN <<"node!">> ELSE <<>>

\* What one call of render_bsp prints for the node it is given.
render_print(node) ==
    IF node.kind = "Node" THEN <<"node!">> ELSE <<"leaf!">>

\* -------------------------------------------------------------------- inputs
\* The six faces main() builds the tree from.
CubeFaces ==
    bsp_cube_faces(<<0, 0, 0>>, <<CubeRadius, CubeRadius, CubeRadius>>)

\* A square in the plane z = 0 inside the box: the box's side faces span it.
ZQuad == bsp_polygon_by_vertices(
    << <<-1, -1, 0>>, <<1, -1, 0>>, <<1, 1, 0>>, <<-1, 1, 0>> >>)
\* A triangle with one vertex behind, one on and one in front of x = -5.
SpanTri == bsp_polygon_by_vertices(
    << <<-7, 0, 0>>, <<-5, 1, 0>>, <<0, 0, 0>> >>)
\* A quadrilateral on x = -5 whose last vertex is off the plane, in the slab.
SlabQuad == bsp_polygon_by_vertices(
    << <<-5, -1, -1>>, <<-5, -1, 1>>, <<-5, 1, 1>>, <<-4, 1, -1>> >>)
\* A quadrilateral whose last vertex is outside the slab of its own plane.
NonPlanarQuad == bsp_polygon_by_vertices(
    << <<0, 0, 1>>, <<1, 0, 1>>, <<1, 1, 1>>, <<0, 1, 3>> >>)
\* Three collinear vertices: the cached plane is NaN.
Degenerate == bsp_polygon_by_vertices(
    << <<0, 0, 0>>, <<1, 0, 0>>, <<2, 0, 0>> >>)
\* A triangle behind x = -5 that touches it with one vertex.
BackTouch == bsp_polygon_by_vertices(
    << <<-7, -1, 0>>, <<-5, 0, 0>>, <<-7, 1, 0>> >>)

Candidates ==
    { CubeFaces[1], CubeFaces[3], ZQuad, SpanTri, SlabQuad, NonPlanarQuad,
      Degenerate, BackTouch }

SeqsUpTo(S, n) == UNION { [1..k -> S] : k \in 0..n }

\* The collections build_bsp_node is called with.
Inputs == { CubeFaces } \cup SeqsUpTo(Candidates, MaxPolys)

\* The viewer of main(), and viewers on, just in front of and behind x = -5.
Viewers ==
    { <<ViewerXY, ViewerXY, 0>>, <<-5, 0, 0>>, <<-4, 0, 0>>, <<-7, 0, 0>> }

\* The arguments split_bsp_polygon is called with on its own.
SplitPolygons == Candidates \cup { CubeFaces[f] : f \in 1..6 }
SplitPlanes == { q.plane : q \in SplitPolygons }

\* --------------------------------------------------------------------- state
VARIABLES
    polygons,   \* the collection main() hands to build_bsp_node
    status,     \* "build", "render", "done", "diverged"; "split" on its own
    stack,      \* calls of build_bsp_node not yet begun, the next one first
    tree,       \* the nodes built so far, by their path from the root
    calls,      \* per call of build_bsp_node on a non-empty list: its lists
    viewer,     \* the viewer position render_bsp is called with
    rstack,     \* calls of render_bsp not yet begun, the next one first
    events,     \* the lines render_bsp has printed, each with its node's path
    split       \* the call of split_bsp_polygon under way or last made

vars == << polygons, status, stack, tree, calls, viewer, rstack, events, split >>

Empty == [p \in {} |-> 0]
NoSplit == [called |-> FALSE, plane |-> NaNPlane, polygon |-> Degenerate,
            result |-> [returns |-> FALSE, iterations |-> 0,
                        front |-> Degenerate, back |-> Degenerate]]

Init ==
    /\ polygons \in Inputs
    /\ status = "build"
    /\ stack = << [path |-> <<>>, polygons |-> polygons] >>
    /\ tree = Empty
    /\ calls = Empty
    /\ viewer = <<0, 0, 0>>
    /\ rstack = <<>>
    /\ events = <<>>
    /\ split = NoSplit

\* The frame number of the call at `path`: the root's call is frame 1.
Frame(path) == Len(path) + 1

\* build_bsp_node on an empty collection: lines 244-246.
BuildLeaf ==
    /\ status = "build" /\ stack # <<>>
    /\ Frame(Head(stack).path) <= StackLimit
    /\ Head(stack).polygons = <<>>
    /\ tree' = tree @@ (Head(stack).path :> [kind |-> "Leaf"])
    /\ stack' = Tail(stack)
    /\ UNCHANGED << polygons, status, calls, viewer, rstack, events, split >>

CallRecord(input, lists) ==
    [input |-> input, front |-> lists.front, back |-> lists.back,
     coplanar |-> lists.coplanar, splits |-> lists.splits,
     returns |-> lists.returns]

\* The node of lines 269-274 and the two recursive calls, the front one first.
MakeNode(top, lists) ==
    /\ lists.returns
    /\ tree' = tree @@ (top.path :>
                  [kind |-> "Node", plane |-> top.polygons[1].plane,
                   polygons |-> lists.coplanar])
    /\ calls' = calls @@ (top.path :> CallRecord(top.polygons, lists))
    /\ stack' = << [path |-> Append(top.path, "front"), polygons |-> lists.front],
                   [path |-> Append(top.path, "back"), polygons |-> lists.back] >>
                    \o Tail(stack)

\* build_bsp_node on a non-empty collection whose loop runs to its end.
BuildNode ==
    /\ status = "build" /\ stack # <<>>
    /\ Frame(Head(stack).path) <= StackLimit
    /\ Head(stack).polygons # <<>>
    /\ MakeNode(Head(stack), build_lists(Head(stack).polygons))
    /\ UNCHANGED << polygons, status, viewer, rstack, events, split >>

\* The polygons the loop has dealt with when it holds `lists`.
Placed(lists) ==
    Len(lists.front) + Len(lists.back) + Len(lists.coplanar) - lists.splits

SplitRecord(plane, polygon) ==
    [called |-> TRUE, plane |-> plane, polygon |-> polygon,
     result |-> split_bsp_polygon(plane, polygon)]

\* The loop stuck in the split of the first polygon it has not dealt with.
StuckInSplit(top, lists) ==
    /\ ~lists.returns
    /\ calls' = calls @@ (top.path :> CallRecord(top.polygons, lists))
    /\ split' = SplitRecord(top.polygons[1].plane,
                            top.polygons[Placed(lists) + 1])

\* build_bsp_node on a collection with a SPANNING polygon whose split does
\* not return: the call stays in its loop with the lists as they are.
BuildSplitNoReturn ==
    /\ status = "build" /\ stack # <<>>
    /\ Frame(Head(stack).path) <= StackLimit
    /\ Head(stack).polygons # <<>>
    /\ StuckInSplit(Head(stack), build_lists(Head(stack).polygons))
    /\ status' = "diverged"
    /\ UNCHANGED << polygons, stack, tree, viewer, rstack, events >>

\* A call of build_bsp_node deeper than the stack holds.
BuildStackOverflow ==
    /\ status = "build" /\ stack # <<>>
    /\ Frame(Head(stack).path) > StackLimit
    /\ status' = "diverged"
    /\ UNCHANGED << polygons, stack, tree, calls, viewer, rstack, events, split >>

\* main(), line 319: the tree is built, render_bsp is called on its root.
StartRender ==
    /\ status = "build" /\ stack = <<>>
    /\ status' = "render"
    /\ viewer' \in Viewers
    /\ rstack' = << <<>> >>
    /\ UNCHANGED << polygons, stack, tree, calls, events, split >>

Printed(path, lines) == [i \in 1..Len(lines) |-> [path |-> path, line |-> lines[i]]]

\* A faulty Node arm: the second recursive call is missing.
Descend_first_only(path, order) == << Append(path, order[1]) >>

\* The two recursive calls of a Node's arm, in their order.
Descend(path, order) == << Append(path, order[1]), Append(path, order[2]) >>

\* render_bsp on a Node: lines 300-310.
RenderNode ==
    /\ status = "render" /\ rstack # <<>>
    /\ tree[Head(rstack)].kind = "Node"
    /\ events' = events \o Printed(Head(rstack), render_print(tree[Head(rstack)]))
    /\ rstack' = Descend(Head(rstack), render_order(tree[Head(rstack)], viewer))
                     \o Tail(rstack)
    /\ UNCHANGED << polygons, status, stack, tree, calls, viewer, split >>

\* render_bsp on a Leaf: lines 311-313.
RenderLeaf ==
    /\ status = "render" /\ rstack # <<>>
    /\ tree[Head(rstack)].kind = "Leaf"
    /\ events' = events \o Printed(Head(rstack), render_print(tree[Head(rstack)]))
    /\ rstack' = Tail(rstack)
    /\ UNCHANGED << polygons, status, stack, tree, calls, viewer, split >>

\* render_bsp on the root has returned; main() ends.
RenderReturn ==
    /\ status = "render" /\ rstack = <<>>
    /\ status' = "done"
    /\ UNCHANGED << polygons, stack, tree, calls, viewer, rstack, events, split >>

Next ==
    \/ BuildLeaf
    \/ BuildNode
    \/ BuildSplitNoReturn
    \/ BuildStackOverflow
    \/ StartRender
    \/ RenderNode
    \/ RenderLeaf
    \/ RenderReturn

Spec == Init /\ [][Next]_vars

\* ------------------------------------------- split_bsp_polygon on its own
\* The function applied to every plane and polygon of the input sets,
\* whatever the polygon's class against the plane.
SplitInit ==
    /\ split \in { [NoSplit EXCEPT !.plane = pl, !.polygon = q] :
                      pl \in SplitPlanes, q \in SplitPolygons }
    /\ status = "split"
    /\ polygons = <<>>
    /\ stack = <<>>
    /\ tree = Empty
    /\ calls = Empty
    /\ viewer = <<0, 0, 0>>
    /\ rstack = <<>>
    /\ events = <<>>

SplitCall ==
    /\ status = "split" /\ ~split.called
    /\ split' = [split EXCEPT !.called = TRUE,
                              !.result = split_bsp_polygon(split.plane, split.polygon)]
    /\ UNCHANGED << polygons, status, stack, tree, calls, viewer, rstack, events >>

SplitNext == SplitCall

SplitSpec == SplitInit /\ [][SplitNext]_vars

\* =================================================================== claims
Sides == {"FRONT", "BACK", "COPLANAR"}

\* p is q or an ancestor of q.
IsPrefix(p, q) == Len(p) <= Len(q) /\ SubSeq(q, 1, Len(p)) = p

Nodes == { p \in DOMAIN tree : tree[p].kind = "Node" }
Leaves == { p \in DOMAIN tree : tree[p].kind = "Leaf" }

\* The tree is whole: build_bsp_node has returned to main().
Built == status \in {"render", "done"}

NoVertex(polygon, plane, side) ==
    \A i \in 1..Len(polygon.vertices) :
        classify_point_to_plane(plane, polygon.vertices[i]) # side

SplitClass == classify_polygon_by_plane(split.plane, split.polygon)

\* C1: a polygon that classifies SPANNING against a plane is split into a
\* front fragment with no vertex BACK of the plane and a back fragment with
\* no vertex FRONT of it, neither of them SPANNING.
C1_SpanningSplitKeepsSides ==
    (split.called /\ SplitClass = "SPANNING") =>
        /\ split.result.returns
        /\ NoVertex(split.result.front, split.plane, "BACK")
        /\ NoVertex(split.result.back, split.plane, "FRONT")
        /\ classify_polygon_by_plane(split.plane, split.result.front) # "SPANNING"
        /\ classify_polygon_by_plane(split.plane, split.result.back) # "SPANNING"

\* C7: splitting a polygon that classifies FRONT (BACK) against the plane
\* returns its vertex ring unchanged as the front (back) fragment and an
\* empty vertex list as the other fragment.
C7_OneSidedSplitUnchanged ==
    split.called =>
        /\ SplitClass = "FRONT" =>
              /\ split.result.returns
              /\ split.result.front.vertices = split.polygon.vertices
              /\ split.result.back.vertices = <<>>
        /\ SplitClass = "BACK" =>
              /\ split.result.returns
              /\ split.result.back.vertices = split.polygon.vertices
              /\ split.result.front.vertices = <<>>

\* C9: every comparison of two PointPlaneSide values returns a boolean, and
\* split_bsp_polygon returns after one loop iteration per vertex.
C9_SplitReturns ==
    (split.called /\ Len(split.polygon.vertices) >= 1) =>
        /\ \A x \in Sides, y \in Sides : PointPlaneSide_eq(x, y).returns
        /\ split.result.returns
        /\ split.result.iterations = Len(split.polygon.vertices)

\* ------------------------------------------------------------------ builder
ClassIn(c, i) == classify_polygon_by_plane(c.input[1].plane, c.input[i])

Indices(c, classes) == { i \in 1..Len(c.input) : ClassIn(c, i) \in classes }

\* The input polygons of the given classes, in their order.
Selected(c, classes) ==
    SelectSeq(c.input,
              LAMBDA q : classify_polygon_by_plane(c.input[1].plane, q) \in classes)

\* list holds, in order, one entry for each input polygon that is of class
\* `side` or SPANNING: the polygon itself when it is of class `side`.
HoldsSide(c, list, side) ==
    /\ Len(list) = Len(Selected(c, {side, "SPANNING"}))
    /\ \A k \in 1..Len(list) :
          classify_polygon_by_plane(c.input[1].plane,
                                    Selected(c, {side, "SPANNING"})[k]) = side
              => list[k] = Selected(c, {side, "SPANNING"})[k]

\* A call of build_bsp_node has placed each of its input polygons once.
PlacedOnce(c) ==
    /\ c.coplanar = Selected(c, {"COPLANAR"})
    /\ HoldsSide(c, c.front, "FRONT")
    /\ HoldsSide(c, c.back, "BACK")
    /\ c.splits = Cardinality(Indices(c, {"SPANNING"}))

RECURSIVE SumOver(_, _)
SumOver(f, S) ==
    IF S = {} THEN 0
    ELSE LET x == CHOOSE y \in S : TRUE IN f[x] + SumOver(f, S \ {x})

StoredCount == SumOver([p \in Nodes |-> Len(tree[p].polygons)], Nodes)
SplitCount == SumOver([p \in DOMAIN calls |-> calls[p].splits], DOMAIN calls)

\* C2: every call of build_bsp_node places each input polygon exactly once
\* (a SPANNING one as one fragment in each of the two lists), and the
\* finished tree stores as many polygons as the input has, plus one for
\* each split.
C2_EveryPolygonPlacedOnce ==
    /\ \A p \in DOMAIN calls : PlacedOnce(calls[p])
    /\ Built => StoredCount = Len(polygons) + SplitCount

OwnCoplanar(q) == classify_polygon_by_plane(q.plane, q) = "COPLANAR"

\* C3: on a collection whose polygons are each COPLANAR with their own
\* cached plane, build_bsp_node terminates: the first polygon of every call
\* goes into the coplanar set and both lists handed on are strictly shorter
\* than the call's input.
C3_BuildTerminates ==
    (\A i \in 1..Len(polygons) : OwnCoplanar(polygons[i])) =>
        /\ status # "diverged"
        /\ \A p \in DOMAIN calls :
              /\ calls[p].coplanar # <<>>
              /\ calls[p].coplanar[1] = calls[p].input[1]
              /\ Len(calls[p].front) < Len(calls[p].input)
              /\ Len(calls[p].back) < Len(calls[p].input)

AllLongEnough(list) == \A i \in 1..Len(list) : Len(list[i].vertices) >= 3

SubtreeAvoids(child, plane, side) ==
    \A q \in Nodes :
        IsPrefix(child, q) =>
            \A i \in 1..Len(tree[q].polygons) :
                NoVertex(tree[q].polygons[i], plane, side)

\* C10: in a tree build_bsp_node has returned, every Node's coplanar set is
\* non-empty and COPLANAR with the Node's plane, no polygon of its front
\* subtree has a vertex BACK of that plane and no polygon of its back
\* subtree has a vertex FRONT of it.
C10_TreeRespectsPlanes ==
    Built =>
        \A p \in Nodes :
            /\ tree[p].polygons # <<>>
            /\ \A i \in 1..Len(tree[p].polygons) :
                  classify_polygon_by_plane(tree[p].plane, tree[p].polygons[i])
                      = "COPLANAR"
            /\ SubtreeAvoids(Append(p, "front"), tree[p].plane, "BACK")
            /\ SubtreeAvoids(Append(p, "back"), tree[p].plane, "FRONT")

\* A built tree with a Node that has a Node in its front subtree and a Node
\* in its back subtree.
C10_Witness ==
    /\ Built
    /\ \E p \in Nodes :
          Append(p, "front") \in Nodes /\ Append(p, "back") \in Nodes

\* ---------------------------------------------------------------- traversal
EventsAt(p) == { i \in 1..Len(events) : events[i].path = p }

\* All events of the subtree at `first` come before all events of the
\* subtree at `second`.
Before(first, second) ==
    \A i \in 1..Len(events), j \in 1..Len(events) :
        (IsPrefix(first, events[i].path) /\ IsPrefix(second, events[j].path))
            => i < j

\* dot(N.plane.n, viewer) > N.plane.d, which never holds of a NaN plane.
StrictlyInFront(plane) ==
    ~plane.nan /\ dot(plane.n, viewer) - plane.d > 0

\* C4: at every Node, the events of the front subtree all come before those
\* of the back subtree if the viewer is strictly in front of the Node's
\* plane, and all after them otherwise.
C4_ViewerSideFirst ==
    \A p \in Nodes :
        IF StrictlyInFront(tree[p].plane)
        THEN Before(Append(p, "front"), Append(p, "back"))
        ELSE Before(Append(p, "back"), Append(p, "front"))

\* A finished traversal with a Node visited front first, another visited
\* back first, and a viewer inside the slab of a plane it is in front of.
C4_Witness ==
    /\ status = "done"
    /\ \E p \in Nodes, q \in Nodes :
          /\ StrictlyInFront(tree[p].plane)
          /\ classify_point_to_plane(tree[p].plane, viewer) = "COPLANAR"
          /\ ~StrictlyInFront(tree[q].plane)
          /\ ~tree[q].plane.nan

\* C5: one traversal emits exactly one event for each node of the tree,
\* Node and Leaf alike: 2k+1 events for k Nodes, whatever the viewer.
C5_EveryNodeVisitedOnce ==
    /\ \A i \in 1..Len(events) : events[i].path \in DOMAIN tree
    /\ \A p \in DOMAIN tree : Cardinality(EventsAt(p)) <= 1
    /\ status = "done" =>
          /\ \A p \in DOMAIN tree : Cardinality(EventsAt(p)) = 1
          /\ Len(events) = 2 * Cardinality(Nodes) + 1

\* A finished traversal of the tree of the box of main(): 6 Nodes, 7 Leaves.
C5_Witness ==
    /\ status = "done"
    /\ polygons = CubeFaces
    /\ Cardinality(Nodes) = 6
    /\ Len(events) = 13

\* C6 as stated: render_bsp emits no event for a Leaf.
C6_LeafEmitsNothing ==
    \A i \in 1..Len(events) : tree[events[i].path].kind # "Leaf"

\* C6 amended: build_bsp_node returns a Leaf for the empty collection, and
\* a traversal emits exactly one event, "leaf!", for every Leaf.
C6_LeafEmitsOneEvent ==
    /\ (Built /\ polygons = <<>>) => tree[<<>>].kind = "Leaf"
    /\ \A i \in 1..Len(events) :
          (events[i].line = "leaf!") <=> (events[i].path \in Leaves)
    /\ status = "done" =>
          \A p \in Leaves : Cardinality(EventsAt(p)) = 1

\* The traversal of the tree of the empty collection has ended.
C6_Witness ==
    /\ status = "done"
    /\ polygons = <<>>
    /\ events = << [path |-> <<>>, line |-> "leaf!"] >>

====
